---- MODULE Spec2Model ----
(***************************************************************************)
(* Frame-resource retention and hot-reload dependency signalling of the    *)
(* shell-texturing demo: WatchedShaders (render/watched_shaders.rs),       *)
(* ShellRenderer (render/shell/mod.rs), PostProcessing                     *)
(* (render/post/mod.rs) and RenderPipeline (render/render.rs).             *)
(*                                                                         *)
(* One frame tick runs the registered systems in registration order, then  *)
(* the render stage.  The asset watch handle, the pipeline constructors    *)
(* and the render manager belong to the pyrite engine; they are modelled   *)
(* at their interface, with every outcome the interface allows.            *)
(***************************************************************************)
EXTENDS Integers, Sequences, FiniteSets, TLC

\* ------------------------------------------------------------------ bounds
\* Number of frame ticks explored.
MaxTicks == 3
\* Number of ticks in which the H / L keys may be held.
MaxKeyTicks == 1
\* Registry API runs: signals created, load_shader calls, update_system calls.
MaxSignals == 2
MaxLoads == 2
MaxUpdates == 2
\* Direct render() calls per run.
MaxRenderCalls == 1
\* Ticks of the resolution keys explored from each starting resolution.
MaxEdits == 2
\* Ticks of the camera explored.
MaxCameraTicks == 3

\* ------------------------------------------------------- program constants
FramesInFlight == 2
InitialResolution == 128

VERTEX_NAME == "shell_vert"
FRAGMENT_NAME == "shell_frag"
POST_NAME == "post_comp"
AssetNames == {VERTEX_NAME, FRAGMENT_NAME, POST_NAME}

\* Option<T> as a sequence of length at most one.
None == <<>>
Some(x) == <<x>>
IsSome(o) == o # <<>>
Unwrap(o) == o[1]

Range(s) == {s[i] : i \in DOMAIN s}

\* ------------------------------------------------- asset watch handle (engine)
\* A handle just returned by assets.load(..).into_watched(): still loading.
NewHandle == [loaded |-> FALSE, error |-> FALSE]

\* What one poll of a handle can meet since the previous poll.
\*   unchanged      nothing happened
\*   loaded         the first load finished (seen by is_loaded())
\*   load_failed    the first load failed
\*   reloaded       the file changed and reloaded; update() returns true
\*   reload_failed  the file changed and failed to load; update() returns true
PollEvents == {"unchanged", "loaded", "load_failed", "reloaded", "reload_failed"}

EventPossible(h, e) ==
    \/ e = "unchanged"
    \/ e \in {"loaded", "load_failed"} /\ ~h.loaded /\ ~h.error
    \/ e \in {"reloaded", "reload_failed"} /\ (h.loaded \/ h.error)

\* is_loaded() as read before update() in the same poll.
HandleIsLoaded(h, e) == h.loaded \/ e = "loaded"

\* The return value of update().
HandleUpdate(e) == e \in {"reloaded", "reload_failed"}

\* The handle after the poll; a failed reload keeps the last good content.
HandleAfter(h, e) ==
    CASE e = "loaded"        -> [loaded |-> TRUE, error |-> FALSE]
      [] e = "load_failed"   -> [loaded |-> FALSE, error |-> TRUE]
      [] e = "reloaded"      -> [loaded |-> TRUE, error |-> FALSE]
      [] e = "reload_failed" -> [loaded |-> h.loaded, error |-> TRUE]
      [] OTHER               -> h

\* get() is Some exactly when content has been loaded.
HandleGet(h) == IF h.loaded THEN Some("spirv") ELSE None

\* ------------------------------------------------------------ WatchedShaders
WatchedShaders_new ==
    [shaders |-> <<>>,
     shaders_loaded |-> {},
     dependency_signals |-> <<>>,
     dirty_dependency_signals |-> {}]

\* Uuid::new_v4(): a token no earlier call returned.
NewUuid(ws) == Cardinality(DOMAIN ws.dependency_signals) + 1

\* Variant: a new signal starts out signalled.
create_dependency_signal_dirty(ws) ==
    [ws EXCEPT !.dependency_signals = NewUuid(ws) :> <<>> @@ @,
               !.dirty_dependency_signals = @ \cup {NewUuid(ws)}]

create_dependency_signal(ws) ==
    [ws EXCEPT !.dependency_signals = NewUuid(ws) :> <<>> @@ @]

\* Variant: registering a shader signals its dependency signal at once.
load_shader_marks_dirty(ws, name, dependency_signal) ==
    [ws EXCEPT !.shaders = name :> NewHandle @@ [n \in DOMAIN @ \ {name} |-> @[n]],
               !.dependency_signals[dependency_signal] = Append(@, name),
               !.dirty_dependency_signals = @ \cup {dependency_signal}]

\* Variant: the signal's list is replaced by the one name.
load_shader_replaces_list(ws, name, dependency_signal) ==
    [ws EXCEPT !.shaders = name :> NewHandle @@ [n \in DOMAIN @ \ {name} |-> @[n]],
               !.dependency_signals[dependency_signal] = <<name>>]

load_shader(ws, name, dependency_signal) ==
    [ws EXCEPT !.shaders = name :> NewHandle @@ [n \in DOMAIN @ \ {name} |-> @[n]],
               !.dependency_signals[dependency_signal] = Append(@, name)]

\* load_shader up to self.shaders.insert(..): the name is tracked with a new
\* handle before the signal's list is looked up.
load_shader_insert(ws, name) ==
    [ws EXCEPT !.shaders = name :> NewHandle @@ [n \in DOMAIN @ \ {name} |-> @[n]]]

\* Variant: an unknown token is accepted.
load_shader_panics_never(ws, dependency_signal) == FALSE

\* dependency_signals.get_mut(signal).unwrap() on a token never created.
load_shader_panics(ws, dependency_signal) ==
    dependency_signal \notin DOMAIN ws.dependency_signals

is_dependency_signaled(ws, dependency_signal) ==
    dependency_signal \in ws.dirty_dependency_signals

\* get_shader(name): None for an unknown name.  For a known name it unwraps the
\* handle's content and panics while there is none; every caller unwraps the
\* result, so None here stands for a panic in either place.
get_shader(ws, name) ==
    IF name \in DOMAIN ws.shaders THEN HandleGet(ws.shaders[name]) ELSE None

\* self.shaders.get(name).map(|h| h.get().unwrap().clone()): the unwrap inside
\* the closure panics for a tracked name whose handle has no content.
get_shader_panics(ws, name) ==
    name \in DOMAIN ws.shaders /\ ~IsSome(HandleGet(ws.shaders[name]))

\* Per asset, what update_system reads in one pass of its loop.
PollReport(ws, ev, name) ==
    LET h == ws.shaders[name]
        new_loaded == HandleIsLoaded(h, ev[name]) /\ name \notin ws.shaders_loaded
        updated == HandleUpdate(ev[name])
    IN [event |-> ev[name],
        new_loaded |-> new_loaded,
        signal |-> updated \/ new_loaded,
        is_error |-> HandleAfter(h, ev[name]).error]

\* Variant: only the first signal found that lists the asset.
SignalsOf_first_match(ws, name) ==
    LET all == {s \in DOMAIN ws.dependency_signals :
                    name \in Range(ws.dependency_signals[s])}
    IN IF all = {} THEN {} ELSE {CHOOSE s \in all : \A t \in all : s <= t}

\* The signals inserted on account of one asset.
SignalsOf(ws, name) ==
    {s \in DOMAIN ws.dependency_signals : name \in Range(ws.dependency_signals[s])}

\* Variant: the dirty set is not cleared.
DirtyAtLoopStart_kept(ws) == ws.dirty_dependency_signals

\* The dirty set the loop starts from.
DirtyAtLoopStart(ws) == {}

\* Variant: the error state of the handle is not consulted.
Inserts_without_error_check(r) == r.signal

\* Variant: only a first load inserts; a later change of the file does not.
Inserts_first_load_only(r) == r.new_loaded /\ ~r.is_error

\* Whether the asset's report inserts its signals.
Inserts(r) == r.signal /\ ~r.is_error

update_system(ws, ev) ==
    LET names == DOMAIN ws.shaders
        rep == [n \in names |-> PollReport(ws, ev, n)]
    IN [ws EXCEPT
          !.shaders = [n \in names |-> HandleAfter(ws.shaders[n], ev[n])],
          !.shaders_loaded = @ \cup {n \in names : rep[n].new_loaded},
          !.dirty_dependency_signals =
              DirtyAtLoopStart(ws) \cup
              UNION {SignalsOf(ws, n) : n \in {m \in names : Inserts(rep[m])}}]

\* Variant: a diagnostic in every tick in which the handle is in error.
update_system_diagnostics_while_error(ws, ev) ==
    {n \in DOMAIN ws.shaders : PollReport(ws, ev, n).is_error}

\* The diagnostics printed by one update_system.
update_system_diagnostics(ws, ev) ==
    {n \in DOMAIN ws.shaders :
        PollReport(ws, ev, n).signal /\ PollReport(ws, ev, n).is_error}

PossibleEvents(ws) ==
    {ev \in [DOMAIN ws.shaders -> PollEvents] :
        \A n \in DOMAIN ws.shaders : EventPossible(ws.shaders[n], ev[n])}

\* ------------------------------------------------------------- GPU objects
\* Every shareable object is a pair <<name, id>>.
PlaneVertexBuffer == <<"plane_mesh.vertex_buffer", 0>>
PlaneIndexBuffer == <<"plane_mesh.index_buffer", 0>>
ShellResolveImage == <<"shell_resolve_image", 0>>
BackbufferImage == <<"backbuffer_image", 0>>
BackbufferDepthImage == <<"backbuffer_depth_image", 0>>
PostOutImage == <<"post.out_image", 0>>
PostDescriptorSet == <<"post.descriptor_set", 0>>
CameraBuffer == <<"camera.buffer", 0>>
FrameDescriptorSet(i) == <<"frame.descriptor_set", i>>
ShellPipelineObject(p) == <<"shell.graphics_pipeline", p.id>>
PostPipelineObject(p) == <<"post.compute_pipeline", p.id>>

Command(op, refs, arg) == [op |-> op, refs |-> refs, arg |-> arg]

\* What constructing a pipeline object can do: return a working object, panic
\* inside the constructor, or return an object that does not work.  The
\* constructors return the object itself, not a Result.
BuildOutcomes == {"built", "panics", "unusable"}

\* ------------------------------------------------------------ ShellRenderer
ShellRenderer_new(shader_dependency_signal) ==
    [shader_dependency_signal |-> shader_dependency_signal,
     pipeline |-> None,
     resolution |-> InitialResolution]

ShellRenderer_is_ready(shell) == IsSome(shell.pipeline)

\* render(): the commands recorded and the used objects returned.
ShellRenderer_render(shell, frame_index) ==
    IF IsSome(shell.pipeline)
    THEN LET pipeline == Unwrap(shell.pipeline)
         IN [commands |->
                <<Command("dynamic_state_viewport", {}, 0),
                  Command("dynamic_state_scissor", {}, 0),
                  Command("bind_graphics_pipeline", {ShellPipelineObject(pipeline)}, 0),
                  Command("bind_descriptor_sets", {FrameDescriptorSet(frame_index)}, 0),
                  Command("begin_render_pass",
                          {BackbufferImage, ShellResolveImage, BackbufferDepthImage}, 0),
                  Command("write_push_constants_typed", {}, shell.resolution),
                  Command("bind_vertex_buffer", {PlaneVertexBuffer}, 0),
                  Command("bind_index_buffer", {PlaneIndexBuffer}, 0),
                  Command("draw_indexed", {}, shell.resolution),
                  Command("end_render_pass", {}, 0),
                  Command("pipeline_barrier", {BackbufferDepthImage}, 0)>>,
             deps |->
                <<PlaneVertexBuffer, PlaneIndexBuffer, ShellResolveImage,
                  BackbufferImage, BackbufferDepthImage>>]
    ELSE [commands |-> <<>>, deps |-> <<>>]

\* refresh_pipeline() reads both shaders, then constructs the pipeline.
ShellRenderer_refresh_panics(ws, outcome) ==
    \/ ~IsSome(get_shader(ws, VERTEX_NAME))
    \/ ~IsSome(get_shader(ws, FRAGMENT_NAME))
    \/ outcome = "panics"

\* Variant: the slot is emptied first and filled only by a working object.
ShellRenderer_refresh_pipeline_take_first(shell, id, outcome) ==
    [shell EXCEPT !.pipeline =
        IF outcome = "built" THEN Some([id |-> id, valid |-> TRUE]) ELSE None]

\* The pipeline slot after a refresh_pipeline() that returned.
ShellRenderer_refresh_pipeline(shell, id, outcome) ==
    [shell EXCEPT !.pipeline = Some([id |-> id, valid |-> outcome = "built"])]

\* Variant: one refresh_pipeline per shader of a signalled dependency list.
ShellRenderer_refresh_calls_per_shader(ws, shell) ==
    IF is_dependency_signaled(ws, shell.shader_dependency_signal)
    THEN Len(ws.dependency_signals[shell.shader_dependency_signal])
    ELSE 0

\* How many times update_system calls refresh_pipeline.
ShellRenderer_refresh_calls(ws, shell) ==
    IF is_dependency_signaled(ws, shell.shader_dependency_signal) THEN 1 ELSE 0

Max(a, b) == IF a >= b THEN a ELSE b

\* A u32 as its two 16-bit halves: the value is hi * 2^16 + lo.
Half == 2 ^ 16
HalfSign == 2 ^ 15
U32(hi, lo) == [hi |-> hi, lo |-> lo]

\* i32::MIN and i32::MAX.
I32Min == (0 - HalfSign) * Half
I32Max == (HalfSign - 1) * Half + (Half - 1)

\* `x as i32`: the same 32 bits read as two's complement.
as_i32(x) ==
    IF x.hi >= HalfSign THEN (x.hi - Half) * Half + x.lo ELSE x.hi * Half + x.lo

\* `i as u32`: the same 32 bits read as unsigned.
as_u32(i) == U32((i \div Half) % Half, i % Half)

\* What an arithmetic overflow does: panic (overflow checks on, the dev
\* profile) or wrap (overflow checks off, the release profile).
Builds == {"overflow_checks", "wrapping"}

Edited(value, panics) == [value |-> value, panics |-> panics]

\* Key H: resolution = (resolution as i32 - 1).max(1) as u32
KeyH(resolution, build) ==
    LET i == as_i32(resolution)
    IN IF i = I32Min
       THEN IF build = "overflow_checks"
            THEN Edited(resolution, TRUE)
            ELSE Edited(as_u32(Max(I32Max, 1)), FALSE)
       ELSE Edited(as_u32(Max(i - 1, 1)), FALSE)

\* Key L: resolution += 1
KeyL(resolution, build) ==
    IF resolution = U32(Half - 1, Half - 1)
    THEN IF build = "overflow_checks"
         THEN Edited(resolution, TRUE)
         ELSE Edited(U32(0, 0), FALSE)
    ELSE IF resolution.lo = Half - 1
         THEN Edited(U32(resolution.hi + 1, 0), FALSE)
         ELSE Edited(U32(resolution.hi, resolution.lo + 1), FALSE)

\* The two key edits of update_system in their order: H, then L.
EditKeys(resolution, h, l, build) ==
    LET r1 == IF h THEN KeyH(resolution, build) ELSE Edited(resolution, FALSE)
    IN IF l /\ ~r1.panics THEN KeyL(r1.value, build) ELSE r1

\* The edit on a resolution below 2^31 written as a number; nothing overflows
\* on the values the tick model reaches.
EditResolution(resolution, h, l) ==
    LET r == EditKeys(as_u32(resolution), h, l, "wrapping").value
    IN r.hi * Half + r.lo

\* ----------------------------------------------------------- PostProcessing
PostProcessing_new(shader_dependency_signal) ==
    [shader_dependency_signal |-> shader_dependency_signal,
     pipeline |-> None]

PostProcessing_is_ready(post) == IsSome(post.pipeline)

\* Variant: the barrier on the output image is recorded outside the readiness test.
PostProcessing_render_barrier_first(post) ==
    IF IsSome(post.pipeline)
    THEN [commands |->
             <<Command("pipeline_barrier", {PostOutImage}, 0),
               Command("bind_compute_pipeline",
                       {PostPipelineObject(Unwrap(post.pipeline))}, 0),
               Command("bind_descriptor_sets", {PostDescriptorSet}, 0),
               Command("write_push_constants_typed", {}, 0),
               Command("dispatch_compute",
                       {ShellResolveImage, PostOutImage, BackbufferDepthImage}, 0)>>,
          deps |-> <<>>]
    ELSE [commands |-> <<Command("pipeline_barrier", {PostOutImage}, 0)>>,
          deps |-> <<>>]

PostProcessing_render(post) ==
    IF IsSome(post.pipeline)
    THEN LET pipeline == Unwrap(post.pipeline)
         IN [commands |->
                <<Command("pipeline_barrier", {PostOutImage}, 0),
                  Command("bind_compute_pipeline", {PostPipelineObject(pipeline)}, 0),
                  Command("bind_descriptor_sets", {PostDescriptorSet}, 0),
                  Command("write_push_constants_typed", {}, 0),
                  Command("dispatch_compute",
                          {ShellResolveImage, PostOutImage, BackbufferDepthImage}, 0)>>,
             deps |-> <<>>]
    ELSE [commands |-> <<>>, deps |-> <<>>]

PostProcessing_refresh_panics(ws, outcome) ==
    \/ ~IsSome(get_shader(ws, POST_NAME))
    \/ outcome = "panics"

PostProcessing_refresh_pipeline(post, id, outcome) ==
    [post EXCEPT !.pipeline = Some([id |-> id, valid |-> outcome = "built"])]

PostProcessing_refresh_calls(ws, post) ==
    IF is_dependency_signaled(ws, post.shader_dependency_signal) THEN 1 ELSE 0

\* ----------------------------------------------------------- RenderPipeline
\* Variant: a single descriptor set is allocated.
RenderPipeline_new_one_frame ==
    [frames |-> [i \in 0 .. 0 |-> [descriptor_set |-> None]]]

\* One Frame per frame in flight; its descriptor set's binding 0.
RenderPipeline_new ==
    [frames |-> [i \in 0 .. FramesInFlight - 1 |-> [descriptor_set |-> None]]]

\* Variant: frame() and frame_mut() always select the first slot.
RenderPipeline_frame_first(rp, frame_idx) == 0

\* frame() / frame_mut(): the slot of self.frames selected for the frame index
\* the render manager reports.
RenderPipeline_frame(rp, frame_idx) == frame_idx

\* The used objects render_system hands over in the ready branch.
FrameDeps(frame_index, shell_deps, post_processing_deps) ==
    <<FrameDescriptorSet(frame_index), BackbufferDepthImage>>
        \o shell_deps \o post_processing_deps

\* Variant: the ready frame is configured without .used_objects(..).
ReadyFrameConfig_without_used_objects(frame_deps) ==
    [backbuffer |-> PostOutImage,
     layout |-> "GENERAL",
     access |-> "SHADER_WRITE",
     used_objects |-> <<>>]

ReadyFrameConfig(frame_deps) ==
    [backbuffer |-> PostOutImage,
     layout |-> "GENERAL",
     access |-> "SHADER_WRITE",
     used_objects |-> frame_deps]

BlankFrameConfig ==
    [backbuffer |-> BackbufferImage,
     layout |-> "UNDEFINED",
     access |-> "empty",
     used_objects |-> <<>>]

\* Variant: the ready branch configures the frame twice.
ReadySubmissions_twice(frame_deps) ==
    <<ReadyFrameConfig(frame_deps), ReadyFrameConfig(frame_deps)>>

\* The set_frame_config calls of one render_system, per branch.
ReadySubmissions(frame_deps) == <<ReadyFrameConfig(frame_deps)>>

\* Variant: the not-ready branch submits nothing.
BlankSubmissions_none == <<>>

BlankSubmissions == <<BlankFrameConfig>>

\* Variant: one ready subsystem is enough.
ready_to_render_either(shell, post) ==
    ShellRenderer_is_ready(shell) \/ PostProcessing_is_ready(post)

\* let ready_to_render = shell_renderer.is_ready() && post_processing.is_ready();
ready_to_render(shell, post) ==
    ShellRenderer_is_ready(shell) /\ PostProcessing_is_ready(post)

\* -------------------------------------------------------------------- Camera
\* The engine's Input for one tick: the frame it belongs to, the keys held
\* (is_key_down), the keys that went down in this tick (is_key_pressed) and the
\* mouse movement.
Input(frame, down, pressed, mouse_delta) ==
    [frame |-> frame, down |-> down, pressed |-> pressed, mouse_delta |-> mouse_delta]
is_key_down(in, key) == key \in in.down
is_key_pressed(in, key) == key \in in.pressed

\* The window's cursor state as the camera sets it.
Window(cursor_grab_mode, cursor_visible) ==
    [cursor_grab_mode |-> cursor_grab_mode, cursor_visible |-> cursor_visible]

\* The view matrix is a function of the position and the two angles.
calculate_view(position, rx, ry) == <<position, rx, ry>>

\* Camera::new: the cursor is released and shown.  Angles are counted in
\* steps of 0.02 rad per unit of mouse movement; the position, a float vector,
\* is kept as the number of translations applied to (0, 5, 0).
Camera_new ==
    [camera |-> [position |-> 0, rx |-> 0, ry |-> 0, cursor_locked |-> FALSE,
                 view |-> calculate_view(0, 0, 0)],
     window |-> Window("None", TRUE)]

\* Variant: the mouse turns the camera whether or not the cursor is locked.
Camera_rotation_always(cam, in) ==
    [cam EXCEPT !.rx = @ + in.mouse_delta[1], !.ry = @ + in.mouse_delta[2]]

\* if camera.cursor_locked { rx += mdx * 0.02; ry += mdy * 0.02 }
Camera_rotation(cam, in) ==
    IF cam.cursor_locked
    THEN [cam EXCEPT !.rx = @ + in.mouse_delta[1], !.ry = @ + in.mouse_delta[2]]
    ELSE cam

\* The translation vector before normalisation: a later `if` overrides an
\* earlier one on the same axis.
Camera_translation(in) ==
    [x |-> IF is_key_down(in, "D") THEN 1 ELSE IF is_key_down(in, "A") THEN -1 ELSE 0,
     y |-> IF is_key_down(in, "Space") THEN 1
           ELSE IF is_key_down(in, "LShift") THEN -1 ELSE 0,
     z |-> IF is_key_down(in, "S") THEN -1 ELSE IF is_key_down(in, "W") THEN 1 ELSE 0]

\* if translation.magnitude() > 0.0 { camera.position += .. }; LControl only
\* scales the step.
Camera_move(cam, in) ==
    IF Camera_translation(in) # [x |-> 0, y |-> 0, z |-> 0]
    THEN [cam EXCEPT !.position = @ + 1]
    ELSE cam

\* if input.is_key_pressed(Key::E): flip the flag, then set the cursor by it.
Camera_toggle(cam, win, in) ==
    IF is_key_pressed(in, "E")
    THEN LET locked == ~cam.cursor_locked
         IN [camera |-> [cam EXCEPT !.cursor_locked = locked],
             window |-> Window(IF locked THEN "Confined" ELSE "None", ~locked)]
    ELSE [camera |-> cam, window |-> win]

\* Camera::update: rotation, translation, cursor lock, matrices.
Camera_update(cam, win, in) ==
    LET moved == Camera_move(Camera_rotation(cam, in), in)
        toggled == Camera_toggle(moved, win, in)
        c == toggled.camera
    IN [camera |-> [c EXCEPT !.view = calculate_view(c.position, c.rx, c.ry)],
        window |-> toggled.window]

\* ------------------------------------------------------ schedule of one tick
\* Variant: the shell renderer's system is registered before the registry's.
UpdateSystems_shell_first ==
    <<"RenderPipeline::update_system",
      "ShellRenderer::update_system",
      "WatchedShaders::update_system",
      "PostProcessing::update_system">>

\* add_system order: setup_watched_shaders, then setup_render_pipeline
\* (RenderPipeline::update_system, setup_shell_renderer), then
\* setup_post_processing, which reads the ShellRenderer resource and so runs
\* after setup_shell_renderer.
UpdateSystems ==
    <<"WatchedShaders::update_system",
      "RenderPipeline::update_system",
      "ShellRenderer::update_system",
      "PostProcessing::update_system">>

\* add_system_to_stage(.., RENDER_STAGE)
RenderSystems == <<"RenderPipeline::render_system">>

Schedule == UpdateSystems \o RenderSystems

\* -------------------------------------------------------------------- state
VARIABLES
    watched_shaders,   \* the WatchedShaders resource
    shell_renderer,    \* the ShellRenderer resource
    post_processing,   \* the PostProcessing resource
    render_pipeline,   \* the RenderPipeline resource
    render_manager,    \* the engine's frame ring: tick, slots, command buffer
    sys,               \* index in Schedule of the next system; 0 outside a tick
    panicked,          \* the process has panicked
    key_ticks,         \* ticks in which H or L was held
    updates,           \* number of WatchedShaders::update_system runs
    polled,            \* per asset, what the last update_system read
    refresh_calls,     \* refresh_pipeline calls of this tick, per subsystem
    refreshed,         \* refresh_pipeline calls that returned, per subsystem
    decided_on,        \* the update count each rebuild decision of this tick read
    tick_start,        \* the pipeline slots at the start of this tick
    build_result,      \* the outcome of this tick's pipeline constructions
    submitted,         \* per slot, the last frame_deps render_system built
    probe,             \* the last direct render() call and what it did
    call,              \* the last direct call of a registry function
    descriptor_writes, \* the descriptor set writes made so far
    camera,            \* the Camera resource
    window,            \* the engine's Window: cursor grab mode and visibility
    input              \* the engine's Input of the current tick

vars == <<watched_shaders, shell_renderer, post_processing, render_pipeline,
          render_manager, sys, panicked, key_ticks, updates, polled,
          refresh_calls, refreshed, decided_on, tick_start, build_result,
          submitted, probe, call, descriptor_writes, camera, window, input>>

\* ------------------------------------------------------------ render manager
\* The engine's frame ring (pyrite RenderManager), from its interface.
RenderManager_new ==
    [tick |-> 0,
     used_objects |-> [i \in 0 .. FramesInFlight - 1 |-> <<>>],
     command_buffer |-> <<>>,
     frame_configs |-> <<>>]

frame_index(rm) == rm.tick % FramesInFlight

\* set_frame_config: the frame's used objects are kept by the current slot.
set_frame_config(rm, config) ==
    [rm EXCEPT !.frame_configs = Append(@, config),
               !.used_objects[frame_index(rm)] = @ \o config.used_objects]

RECURSIVE set_frame_configs(_, _)
set_frame_configs(rm, configs) ==
    IF configs = <<>> THEN rm
    ELSE set_frame_configs(set_frame_config(rm, Head(configs)), Tail(configs))

record_commands(rm, commands) ==
    [rm EXCEPT !.command_buffer = @ \o commands]

\* The next frame begins: the ring advances and the slot now current drops the
\* objects it kept for its previous use.
next_frame(rm) ==
    LET t == rm.tick + 1
    IN [tick |-> t,
        used_objects |-> [rm.used_objects EXCEPT ![t % FramesInFlight] = <<>>],
        command_buffer |-> <<>>,
        frame_configs |-> <<>>]

\* ---------------------------------------------------------------- setup
\* ShellRenderer::new: one signal, two shaders.
SetupShell(ws) ==
    LET sig == NewUuid(ws)
        w1 == create_dependency_signal(ws)
        w2 == load_shader(w1, VERTEX_NAME, sig)
        w3 == load_shader(w2, FRAGMENT_NAME, sig)
    IN [ws |-> w3, shell |-> ShellRenderer_new(sig)]

\* PostProcessing::new: one signal, one shader.
SetupPost(ws) ==
    LET sig == NewUuid(ws)
        w1 == create_dependency_signal(ws)
        w2 == load_shader(w1, POST_NAME, sig)
    IN [ws |-> w2, post |-> PostProcessing_new(sig)]

NoCalls == [shell |-> 0, post |-> 0]
NoDecision == [shell |-> -1, post |-> -1]
NoBuild == [shell |-> "none", post |-> "none"]
NoProbe ==
    [caller |-> "none", ready |-> FALSE, commands |-> <<>>, deps |-> <<>>, calls |-> 0]

\* A direct call of a registry function: the function, the token passed and,
\* for is_dependency_signaled, the boolean returned.
RegistryCall(op, sig, answer) == [op |-> op, sig |-> sig, answer |-> answer]
NoCall == RegistryCall("none", 0, FALSE)

\* A descriptor set write (write() .. submit_writes()): the set written, the
\* tick and current slot, and the slots whose retained list held the set then.
DescriptorWrite(set, rm) ==
    [set |-> set,
     tick |-> rm.tick,
     slot |-> frame_index(rm),
     retained_by |-> {j \in DOMAIN rm.used_objects :
                         set \in Range(rm.used_objects[j])}]

\* PostProcessing::new writes its descriptor set once, before the first tick.
SetupWrite(set) == [set |-> set, tick |-> -1, slot |-> -1, retained_by |-> {}]

InitRest ==
    /\ render_pipeline = RenderPipeline_new
    /\ panicked = FALSE
    /\ key_ticks = 0
    /\ updates = 0
    /\ polled = <<>>
    /\ refresh_calls = NoCalls
    /\ refreshed = NoCalls
    /\ decided_on = NoDecision
    /\ build_result = NoBuild
    /\ submitted = [i \in 0 .. FramesInFlight - 1 |-> [tick |-> -1, deps |-> <<>>]]
    /\ probe = NoProbe
    /\ call = NoCall
    /\ camera = Camera_new.camera
    /\ window = Camera_new.window
    /\ input = Input(0, {}, {}, <<0, 0>>)

Init ==
    LET s == SetupShell(WatchedShaders_new)
        p == SetupPost(s.ws)
    IN /\ watched_shaders = p.ws
       /\ shell_renderer = s.shell
       /\ post_processing = p.post
       /\ tick_start = [shell |-> s.shell.pipeline, post |-> p.post.pipeline]
       /\ render_manager = RenderManager_new
       /\ descriptor_writes = {SetupWrite(PostDescriptorSet)}
       /\ sys = 1
       /\ InitRest

Current(name) ==
    /\ ~panicked
    /\ sys \in DOMAIN Schedule
    /\ Schedule[sys] = name

\* ---------------------------------------------------------------- systems
WatchedShadersUpdate ==
    /\ Current("WatchedShaders::update_system")
    /\ \E ev \in PossibleEvents(watched_shaders) :
          /\ watched_shaders' = update_system(watched_shaders, ev)
          /\ polled' = [n \in DOMAIN watched_shaders.shaders |->
                            PollReport(watched_shaders, ev, n)]
    /\ updates' = updates + 1
    /\ sys' = sys + 1
    /\ UNCHANGED <<shell_renderer, post_processing, render_pipeline,
                   render_manager, panicked, key_ticks, refresh_calls, refreshed,
                   decided_on, tick_start, build_result, submitted, probe,
                   call, descriptor_writes>>
    /\ UNCHANGED <<camera, window, input>>

\* RenderPipeline::update_system has an empty body.
RenderPipelineUpdate ==
    /\ Current("RenderPipeline::update_system")
    /\ sys' = sys + 1
    /\ UNCHANGED <<watched_shaders, shell_renderer, post_processing,
                   render_pipeline, render_manager, panicked, key_ticks, updates,
                   polled, refresh_calls, refreshed, decided_on, tick_start,
                   build_result, submitted, probe,
                   call, descriptor_writes>>
    /\ UNCHANGED <<camera, window, input>>

ShellUpdate ==
    /\ Current("ShellRenderer::update_system")
    /\ \E outcome \in BuildOutcomes, h \in BOOLEAN, l \in BOOLEAN :
          LET calls == ShellRenderer_refresh_calls(watched_shaders, shell_renderer)
              reads_fail == \/ ~IsSome(get_shader(watched_shaders, VERTEX_NAME))
                            \/ ~IsSome(get_shader(watched_shaders, FRAGMENT_NAME))
              refresh_panics ==
                  calls > 0 /\ ShellRenderer_refresh_panics(watched_shaders, outcome)
              refreshed_shell ==
                  IF calls > 0
                  THEN ShellRenderer_refresh_pipeline(
                           shell_renderer, render_manager.tick, outcome)
                  ELSE shell_renderer
          IN /\ (h \/ l) => key_ticks < MaxKeyTicks
             /\ calls = 0 => outcome = "built"
             /\ key_ticks' = IF h \/ l THEN key_ticks + 1 ELSE key_ticks
             /\ refresh_calls' = [refresh_calls EXCEPT !.shell = calls]
             /\ decided_on' = [decided_on EXCEPT !.shell = updates]
             /\ build_result' =
                   [build_result EXCEPT !.shell =
                        IF calls > 0 /\ ~reads_fail THEN outcome ELSE @]
             /\ IF refresh_panics
                THEN /\ panicked' = TRUE
                     /\ UNCHANGED <<shell_renderer, refreshed, sys>>
                ELSE /\ panicked' = FALSE
                     /\ shell_renderer' =
                           [refreshed_shell EXCEPT
                                !.resolution = EditResolution(@, h, l)]
                     /\ refreshed' = [refreshed EXCEPT !.shell = @ + calls]
                     /\ sys' = sys + 1
    /\ UNCHANGED <<watched_shaders, post_processing, render_pipeline,
                   render_manager, updates, polled, tick_start, submitted, probe,
                   call, descriptor_writes>>
    /\ UNCHANGED <<camera, window, input>>

PostUpdate ==
    /\ Current("PostProcessing::update_system")
    /\ \E outcome \in BuildOutcomes :
          LET calls == PostProcessing_refresh_calls(watched_shaders, post_processing)
              reads_fail == ~IsSome(get_shader(watched_shaders, POST_NAME))
              refresh_panics ==
                  calls > 0 /\ PostProcessing_refresh_panics(watched_shaders, outcome)
          IN /\ calls = 0 => outcome = "built"
             /\ refresh_calls' = [refresh_calls EXCEPT !.post = calls]
             /\ decided_on' = [decided_on EXCEPT !.post = updates]
             /\ build_result' =
                   [build_result EXCEPT !.post =
                        IF calls > 0 /\ ~reads_fail THEN outcome ELSE @]
             /\ IF refresh_panics
                THEN /\ panicked' = TRUE
                     /\ UNCHANGED <<post_processing, refreshed, sys>>
                ELSE /\ panicked' = FALSE
                     /\ post_processing' =
                           IF calls > 0
                           THEN PostProcessing_refresh_pipeline(
                                    post_processing, render_manager.tick, outcome)
                           ELSE post_processing
                     /\ refreshed' = [refreshed EXCEPT !.post = @ + calls]
                     /\ sys' = sys + 1
    /\ UNCHANGED <<watched_shaders, shell_renderer, render_pipeline,
                   render_manager, key_ticks, updates, polled, tick_start,
                   submitted, probe,
                   call, descriptor_writes>>
    /\ UNCHANGED <<camera, window, input>>

RenderSystem ==
    /\ Current("RenderPipeline::render_system")
    /\ LET i == RenderPipeline_frame(render_pipeline, frame_index(render_manager))
           shell_out == ShellRenderer_render(shell_renderer, i)
           post_out == PostProcessing_render(post_processing)
           frame_deps == FrameDeps(i, shell_out.deps, post_out.deps)
       IN IF ready_to_render(shell_renderer, post_processing)
          THEN /\ render_pipeline' =
                     [render_pipeline EXCEPT
                          !.frames[i].descriptor_set = Some(CameraBuffer)]
               /\ render_manager' =
                     set_frame_configs(
                         record_commands(render_manager,
                                         shell_out.commands \o post_out.commands),
                         ReadySubmissions(frame_deps))
               /\ submitted' =
                     [submitted EXCEPT
                          ![i] = [tick |-> render_manager.tick, deps |-> frame_deps]]
               /\ descriptor_writes' =
                     descriptor_writes \cup
                         {DescriptorWrite(FrameDescriptorSet(i), render_manager)}
          ELSE /\ render_manager' = set_frame_configs(render_manager, BlankSubmissions)
               /\ UNCHANGED <<render_pipeline, submitted, descriptor_writes>>
    /\ sys' = sys + 1
    /\ UNCHANGED <<watched_shaders, shell_renderer, post_processing, panicked,
                   key_ticks, updates, polled, refresh_calls, refreshed,
                   decided_on, tick_start, build_result, probe,
                   call>>
    /\ UNCHANGED <<camera, window, input>>

\* The engine ends the frame and begins the next one.
NextFrame ==
    /\ ~panicked
    /\ sys = Len(Schedule) + 1
    /\ render_manager.tick + 1 < MaxTicks
    /\ render_manager' = next_frame(render_manager)
    /\ sys' = 1
    /\ refresh_calls' = NoCalls
    /\ decided_on' = NoDecision
    /\ build_result' = NoBuild
    /\ tick_start' = [shell |-> shell_renderer.pipeline,
                      post |-> post_processing.pipeline]
    /\ UNCHANGED <<watched_shaders, shell_renderer, post_processing,
                   render_pipeline, panicked, key_ticks, updates, polled,
                   refreshed, submitted, probe,
                   call, descriptor_writes>>
    /\ UNCHANGED <<camera, window, input>>

Next ==
    \/ WatchedShadersUpdate
    \/ RenderPipelineUpdate
    \/ ShellUpdate
    \/ PostUpdate
    \/ RenderSystem
    \/ NextFrame

Spec == Init /\ [][Next]_vars

\* app_builder.run() keeps running the frame loop: while the process has not
\* panicked, the system whose turn it is runs, and the next frame follows the
\* last system.
SpecLive == Init /\ [][Next]_vars /\ WF_vars(Next)

\* ------------------------------------------------ the registry used directly
\* WatchedShaders::new() followed by any calls of its public functions.
RegistryNames == {VERTEX_NAME, FRAGMENT_NAME}

\* A DependencySignal this registry did not create (NewUuid starts at 1).
ForeignToken == 0

InitRegistry ==
    /\ watched_shaders = WatchedShaders_new
    /\ shell_renderer = ShellRenderer_new(0)
    /\ post_processing = PostProcessing_new(0)
    /\ tick_start = [shell |-> None, post |-> None]
    /\ render_manager = RenderManager_new
    /\ descriptor_writes = {}
    /\ sys = 0
    /\ InitRest

RegistryUnchanged ==
    UNCHANGED <<shell_renderer, post_processing, render_pipeline, render_manager,
                sys, panicked, key_ticks, refresh_calls, refreshed, decided_on,
                tick_start, build_result, submitted, probe,
                descriptor_writes>>

CallCreateDependencySignal ==
    /\ ~panicked
    /\ Cardinality(DOMAIN watched_shaders.dependency_signals) < MaxSignals
    /\ watched_shaders' = create_dependency_signal(watched_shaders)
    /\ call' = RegistryCall("create_dependency_signal", 0, FALSE)
    /\ UNCHANGED <<updates, polled>>
    /\ RegistryUnchanged
    /\ UNCHANGED <<camera, window, input>>

RECURSIVE TotalLen(_)
TotalLen(lists) ==
    IF DOMAIN lists = {} THEN 0
    ELSE LET k == CHOOSE k \in DOMAIN lists : TRUE
         IN Len(lists[k]) + TotalLen([j \in DOMAIN lists \ {k} |-> lists[j]])

\* load_shader(.., name, signal) with a token an earlier call returned or with
\* the foreign token; with the latter it panics after tracking the name.
CallLoadShader ==
    /\ ~panicked
    /\ TotalLen(watched_shaders.dependency_signals) < MaxLoads
    /\ \E sig \in DOMAIN watched_shaders.dependency_signals \cup {ForeignToken},
          name \in RegistryNames :
          /\ call' = RegistryCall("load_shader", sig, FALSE)
          /\ IF load_shader_panics(watched_shaders, sig)
             THEN /\ panicked' = TRUE
                  /\ watched_shaders' = load_shader_insert(watched_shaders, name)
             ELSE /\ panicked' = FALSE
                  /\ watched_shaders' = load_shader(watched_shaders, name, sig)
    /\ UNCHANGED <<updates, polled, shell_renderer, post_processing,
                   render_pipeline, render_manager, sys, key_ticks, refresh_calls,
                   refreshed, decided_on, tick_start, build_result, submitted,
                   probe, descriptor_writes>>
    /\ UNCHANGED <<camera, window, input>>

CallUpdateSystem ==
    /\ ~panicked
    /\ updates < MaxUpdates
    /\ \E ev \in PossibleEvents(watched_shaders) :
          /\ watched_shaders' = update_system(watched_shaders, ev)
          /\ polled' = [n \in DOMAIN watched_shaders.shaders |->
                            PollReport(watched_shaders, ev, n)]
    /\ updates' = updates + 1
    /\ call' = RegistryCall("update_system", 0, FALSE)
    /\ RegistryUnchanged
    /\ UNCHANGED <<camera, window, input>>

\* is_dependency_signaled(&self, ..) with a token an earlier call returned or
\* with the foreign token.
CallIsDependencySignaled ==
    /\ ~panicked
    /\ \E sig \in DOMAIN watched_shaders.dependency_signals \cup {ForeignToken} :
          call' = RegistryCall("is_dependency_signaled", sig,
                               is_dependency_signaled(watched_shaders, sig))
    /\ UNCHANGED <<watched_shaders, updates, polled>>
    /\ RegistryUnchanged
    /\ UNCHANGED <<camera, window, input>>

\* get_shader(&self, name): a panic for a tracked name without content.
CallGetShader ==
    /\ ~panicked
    /\ \E name \in RegistryNames :
          IF get_shader_panics(watched_shaders, name)
          THEN /\ panicked' = TRUE
               /\ UNCHANGED call
          ELSE /\ panicked' = FALSE
               /\ call' = RegistryCall("get_shader", 0, FALSE)
    /\ UNCHANGED <<watched_shaders, updates, polled, shell_renderer,
                   post_processing, render_pipeline, render_manager, sys,
                   key_ticks, refresh_calls, refreshed, decided_on, tick_start,
                   build_result, submitted, probe, descriptor_writes>>
    /\ UNCHANGED <<camera, window, input>>

NextRegistry ==
    \/ CallCreateDependencySignal
    \/ CallLoadShader
    \/ CallUpdateSystem
    \/ CallIsDependencySignaled
    \/ CallGetShader

SpecRegistry == InitRegistry /\ [][NextRegistry]_vars

\* ------------------------------------------------- render() called directly
\* The pipeline slots a subsystem can hold at tick t.
PipelineSlots(t) ==
    {None} \cup {Some([id |-> i, valid |-> v]) : i \in 0 .. t, v \in BOOLEAN}

InitRender ==
    /\ \E t \in 0 .. MaxTicks - 1 :
          /\ render_manager = [RenderManager_new EXCEPT !.tick = t]
          /\ \E sp \in PipelineSlots(t), pp \in PipelineSlots(t) :
                /\ shell_renderer = [ShellRenderer_new(1) EXCEPT !.pipeline = sp]
                /\ post_processing = [PostProcessing_new(2) EXCEPT !.pipeline = pp]
                /\ tick_start = [shell |-> sp, post |-> pp]
    /\ watched_shaders = SetupPost(SetupShell(WatchedShaders_new).ws).ws
    /\ descriptor_writes = {SetupWrite(PostDescriptorSet)}
    /\ sys = 0
    /\ InitRest

RenderCallUnchanged ==
    UNCHANGED <<watched_shaders, shell_renderer, post_processing, render_pipeline,
                sys, panicked, key_ticks, updates, polled, refresh_calls,
                refreshed, decided_on, tick_start, build_result, submitted,
                call, descriptor_writes>>

CallShellRender ==
    /\ probe.calls < MaxRenderCalls
    /\ LET out == ShellRenderer_render(shell_renderer, frame_index(render_manager))
       IN /\ render_manager' = record_commands(render_manager, out.commands)
          /\ probe' = [caller |-> "shell",
                       ready |-> ShellRenderer_is_ready(shell_renderer),
                       commands |-> SubSeq(render_manager'.command_buffer,
                                           Len(render_manager.command_buffer) + 1,
                                           Len(render_manager'.command_buffer)),
                       deps |-> out.deps,
                       calls |-> probe.calls + 1]
    /\ RenderCallUnchanged
    /\ UNCHANGED <<camera, window, input>>

CallPostRender ==
    /\ probe.calls < MaxRenderCalls
    /\ LET out == PostProcessing_render(post_processing)
       IN /\ render_manager' = record_commands(render_manager, out.commands)
          /\ probe' = [caller |-> "post",
                       ready |-> PostProcessing_is_ready(post_processing),
                       commands |-> SubSeq(render_manager'.command_buffer,
                                           Len(render_manager.command_buffer) + 1,
                                           Len(render_manager'.command_buffer)),
                       deps |-> out.deps,
                       calls |-> probe.calls + 1]
    /\ RenderCallUnchanged
    /\ UNCHANGED <<camera, window, input>>

NextRender ==
    \/ CallShellRender
    \/ CallPostRender

SpecRender == InitRender /\ [][NextRender]_vars

\* ------------------------------------------------ the resolution keys alone
\* ShellRenderer::update_system in ticks where no signal is dirty: only the key
\* edits act.  The resolution is held as a u32 in halves.  It moves by one per
\* tick, so the run starts from resolutions that key presses reach from 128:
\* the values around 1, 128, 2^16, 2^31 and 2^32 - 1.
ResolutionInputs ==
    {U32(hi, lo) : hi \in {0, 1, HalfSign - 1, HalfSign, Half - 1},
                   lo \in {0, 1, 2, InitialResolution, Half - 2, Half - 1}}
        \ {U32(0, 0)}

InitResolution ==
    /\ \E x \in ResolutionInputs :
          shell_renderer = [ShellRenderer_new(0) EXCEPT !.resolution = x]
    /\ watched_shaders = WatchedShaders_new
    /\ post_processing = PostProcessing_new(0)
    /\ tick_start = [shell |-> None, post |-> None]
    /\ render_manager = RenderManager_new
    /\ descriptor_writes = {}
    /\ sys = 0
    /\ InitRest

\* One tick with H, L or both held.
KeyEdit ==
    /\ ~panicked
    /\ key_ticks < MaxEdits
    /\ \E h \in BOOLEAN, l \in BOOLEAN, build \in Builds :
          LET r == EditKeys(shell_renderer.resolution, h, l, build)
          IN /\ h \/ l
             /\ panicked' = r.panics
             /\ shell_renderer' = [shell_renderer EXCEPT !.resolution = r.value]
    /\ key_ticks' = key_ticks + 1
    /\ UNCHANGED <<watched_shaders, post_processing, render_pipeline,
                   render_manager, sys, updates, polled, refresh_calls, refreshed,
                   decided_on, tick_start, build_result, submitted, probe, call,
                   descriptor_writes>>
    /\ UNCHANGED <<camera, window, input>>

\* A tick with neither key held.
NoKeyTick ==
    /\ ~panicked
    /\ key_ticks < MaxEdits
    /\ key_ticks' = key_ticks + 1
    /\ UNCHANGED <<watched_shaders, shell_renderer, post_processing,
                   render_pipeline, render_manager, sys, panicked, updates,
                   polled, refresh_calls, refreshed, decided_on, tick_start,
                   build_result, submitted, probe, call, descriptor_writes>>
    /\ UNCHANGED <<camera, window, input>>

NextResolution ==
    \/ KeyEdit
    \/ NoKeyTick

SpecResolution == InitResolution /\ [][NextResolution]_vars

\* ---------------------------------------------------------- the camera alone
\* Camera::update once per tick, with the Input the engine hands it.
KeySets ==
    {{}, {"W"}, {"W", "S"}, {"A"}, {"D", "LControl"}, {"LShift", "Space"}}
MouseDeltas == {<<0, 0>>, <<1, 0>>, <<0, -1>>}

InitCamera ==
    /\ watched_shaders = WatchedShaders_new
    /\ shell_renderer = ShellRenderer_new(0)
    /\ post_processing = PostProcessing_new(0)
    /\ tick_start = [shell |-> None, post |-> None]
    /\ render_manager = RenderManager_new
    /\ descriptor_writes = {}
    /\ sys = 0
    /\ InitRest

CameraUpdate ==
    /\ input.frame < MaxCameraTicks
    /\ \E down \in KeySets, pressed \in SUBSET {"E"}, mouse_delta \in MouseDeltas :
          LET in == Input(input.frame + 1, down, pressed, mouse_delta)
              after == Camera_update(camera, window, in)
          IN /\ input' = in
             /\ camera' = after.camera
             /\ window' = after.window
    /\ UNCHANGED <<watched_shaders, shell_renderer, post_processing,
                   render_pipeline, render_manager, sys, panicked, key_ticks,
                   updates, polled, refresh_calls, refreshed, decided_on,
                   tick_start, build_result, submitted, probe, call,
                   descriptor_writes>>

NextCamera == CameraUpdate

SpecCamera == InitCamera /\ [][NextCamera]_vars

\* ================================================================== claims
Idx(name) == CHOOSE i \in DOMAIN Schedule : Schedule[i] = name

\* The named system has run in the current tick.
Ran(name) == sys > Idx(name)

Tick == render_manager.tick
Deps(s) == Range(watched_shaders.dependency_signals[s])
Signals == DOMAIN watched_shaders.dependency_signals
Dirty == watched_shaders.dirty_dependency_signals
ShellSig == shell_renderer.shader_dependency_signal
PostSig == post_processing.shader_dependency_signal
Pipeline == [shell |-> shell_renderer.pipeline, post |-> post_processing.pipeline]
Subsystems == {"shell", "post"}

\* C1: a used-object list handed over at tick k stays in its slot's retained
\* list at every tick from k to k + frames_in_flight - 1.
C1_NoPrematureRelease ==
    \A i \in 0 .. FramesInFlight - 1 :
        (submitted[i].tick >= 0 /\ Tick < submitted[i].tick + FramesInFlight)
            => \A o \in Range(submitted[i].deps) :
                   o \in Range(render_manager.used_objects[i])

\* The last tick at which a non-empty submission must still be retained.
C1_Witness ==
    \E i \in 0 .. FramesInFlight - 1 :
        /\ submitted[i].tick >= 0
        /\ submitted[i].deps # <<>>
        /\ Tick = submitted[i].tick + FramesInFlight - 1
        /\ Ran("RenderPipeline::render_system")
        /\ Range(submitted[i].deps) \subseteq Range(render_manager.used_objects[i])

OnlyFailed(s) ==
    /\ \E a \in Deps(s) : polled[a].signal /\ polled[a].is_error
    /\ \A a \in Deps(s) : polled[a].signal => polled[a].is_error

\* No asset of the signal reported a change or first load without error.
NoGoodChange(s) ==
    \A a \in Deps(s) : polled[a].signal => polled[a].is_error

\* C3: a signal none of whose assets changed without error in this tick is not
\* signalled, and its subsystem's pipeline is the one it had when the tick began.
C3_FailedReloadNeverDirties ==
    Ran("WatchedShaders::update_system") =>
        /\ \A s \in Signals : NoGoodChange(s) => s \notin Dirty
        /\ (NoGoodChange(ShellSig) /\ Ran("ShellRenderer::update_system"))
               => shell_renderer.pipeline = tick_start.shell
        /\ (NoGoodChange(PostSig) /\ Ran("PostProcessing::update_system"))
               => post_processing.pipeline = tick_start.post

\* A shell shader failed to reload and the built pipeline is still in place.
C3_Witness ==
    /\ Ran("PostProcessing::update_system")
    /\ OnlyFailed(ShellSig)
    /\ IsSome(shell_renderer.pipeline)
    /\ shell_renderer.pipeline = tick_start.shell
    /\ ShellSig \notin Dirty

\* C4: in a tick a subsystem calls refresh_pipeline once if its signal is
\* signalled and not at all otherwise.
C4_SingleRebuildPerDirtyTick ==
    /\ refresh_calls.shell <= 1 /\ refresh_calls.post <= 1
    /\ decided_on.shell >= 0 =>
           refresh_calls.shell = IF ShellSig \in Dirty THEN 1 ELSE 0
    /\ decided_on.post >= 0 =>
           refresh_calls.post = IF PostSig \in Dirty THEN 1 ELSE 0

\* Both shell shaders changed in one tick and the pipeline was rebuilt once.
C4_Witness ==
    /\ Ran("ShellRenderer::update_system")
    /\ Tick >= 1
    /\ polled[VERTEX_NAME].signal /\ ~polled[VERTEX_NAME].is_error
    /\ polled[FRAGMENT_NAME].signal /\ ~polled[FRAGMENT_NAME].is_error
    /\ refresh_calls.shell = 1

\* C5: render() on a subsystem without a pipeline records no command and
\* returns no used object.
C5_NotReadyNoOp ==
    (probe.caller # "none" /\ ~probe.ready) =>
        /\ probe.commands = <<>>
        /\ probe.deps = <<>>

\* PostProcessing::render was called without a pipeline while the shell
\* renderer had one.
C5_Witness ==
    /\ probe.caller = "post"
    /\ ~probe.ready
    /\ ShellRenderer_is_ready(shell_renderer)
    /\ probe.commands = <<>>

\* C6: when a signalled subsystem's pipeline construction fails, the tick goes
\* on and the subsystem holds the pipeline it held before.
C6_FailSafeRebuild ==
    \A x \in Subsystems :
        build_result[x] \in {"panics", "unusable"} =>
            /\ ~panicked
            /\ Pipeline[x] = tick_start[x]

\* C7: every object a recorded command refers to is in the used-object list of
\* the frame's configuration.
C7_UsedObjectCompleteness ==
    render_manager.frame_configs # <<>> =>
        \A j \in DOMAIN render_manager.command_buffer :
            render_manager.command_buffer[j].refs
                \subseteq Range(render_manager.frame_configs[1].used_objects)

\* C8: a tick's render_system has called set_frame_config exactly once, and
\* nothing else has.
C8_FrameSubmittedEveryTick ==
    Len(render_manager.frame_configs) =
        IF Ran("RenderPipeline::render_system") THEN 1 ELSE 0

\* render_system ran with exactly one of the two subsystems ready.
C8_Witness ==
    /\ Ran("RenderPipeline::render_system")
    /\ ShellRenderer_is_ready(shell_renderer)
    /\ ~PostProcessing_is_ready(post_processing)
    /\ Len(render_manager.frame_configs) = 1

ReadyIffRefreshed ==
    /\ ShellRenderer_is_ready(shell_renderer) <=> refreshed.shell >= 1
    /\ PostProcessing_is_ready(post_processing) <=> refreshed.post >= 1

ReadyStays ==
    /\ ShellRenderer_is_ready(shell_renderer) => ShellRenderer_is_ready(shell_renderer')
    /\ PostProcessing_is_ready(post_processing)
           => PostProcessing_is_ready(post_processing')

\* C9: a subsystem is ready exactly when a refresh_pipeline of it has returned,
\* and once ready it stays ready.
C9_ReadinessMonotonic == []ReadyIffRefreshed /\ [][ReadyStays]_vars

\* The shell renderer is ready after its second refresh_pipeline.
C9_Witness ==
    /\ refreshed.shell >= 2
    /\ ShellRenderer_is_ready(shell_renderer)

GoodChange(r) == (r.new_loaded \/ r.event = "reloaded") /\ ~r.is_error

AnswerIsDirtySet ==
    call.op = "is_dependency_signaled" => call.answer = (call.sig \in Dirty)

\* A step other than update_system leaves the dirty set as it is.
DirtyOnlyByUpdate ==
    updates' = updates =>
        watched_shaders'.dirty_dependency_signals
            = watched_shaders.dirty_dependency_signals

\* C12: between two update_system calls is_dependency_signaled gives one
\* answer per token, and only update_system changes the dirty set.
C12_StableReadOnlyQuery == []AnswerIsDirtySet /\ [][DirtyOnlyByUpdate]_vars

\* A signalled token is queried after a shader was registered since the last
\* update_system.
C12_Witness ==
    /\ call.op = "is_dependency_signaled"
    /\ call.answer
    /\ \E n \in DOMAIN watched_shaders.shaders : n \notin DOMAIN polled

RECURSIVE Dedup(_)
Dedup(list) ==
    IF list = <<>> THEN <<>>
    ELSE LET front == Dedup(SubSeq(list, 1, Len(list) - 1))
             last == list[Len(list)]
         IN IF last \in Range(front) THEN front ELSE Append(front, last)

\* The registry with every name listed once per signal.
RegisteredOnce(ws) ==
    [ws EXCEPT !.dependency_signals =
        [s \in DOMAIN @ |-> Dedup(@[s])]]

\* C13: no signal lists a name twice, and every update_system leaves the dirty
\* set it would leave with each name registered once.
C13_RegistrationIdempotent ==
    /\ \A s \in Signals :
           Len(watched_shaders.dependency_signals[s]) = Cardinality(Deps(s))
    /\ \A ev \in PossibleEvents(watched_shaders) :
           update_system(watched_shaders, ev).dirty_dependency_signals
               = update_system(RegisteredOnce(watched_shaders), ev)
                     .dirty_dependency_signals

\* A step of load_shader: some signal's list changed.
LoadShaderStep ==
    /\ DOMAIN watched_shaders'.dependency_signals
           = DOMAIN watched_shaders.dependency_signals
    /\ watched_shaders'.dependency_signals # watched_shaders.dependency_signals

\* C14: load_shader leaves the handle and the loaded state of a tracked name
\* alone, and a name it starts tracking is unloaded.
C14_TrackedNameKeepsHandle ==
    [][LoadShaderStep =>
          /\ \A n \in DOMAIN watched_shaders.shaders :
                 watched_shaders'.shaders[n] = watched_shaders.shaders[n]
          /\ watched_shaders'.shaders_loaded = watched_shaders.shaders_loaded
          /\ \A n \in DOMAIN watched_shaders'.shaders \ DOMAIN watched_shaders.shaders :
                 /\ watched_shaders'.shaders[n] = NewHandle
                 /\ n \notin watched_shaders'.shaders_loaded
    ]_vars

\* A step of create_dependency_signal: the set of tokens changed.
CreateSignalStep ==
    DOMAIN watched_shaders'.dependency_signals
        # DOMAIN watched_shaders.dependency_signals

\* C15: create_dependency_signal returns, adds exactly one token that was not
\* registered before, with an empty list and not signalled, and leaves every
\* other signal's list as it was.
C15_CreateSignalFresh ==
    [][CreateSignalStep =>
          LET old == watched_shaders.dependency_signals
              new == watched_shaders'.dependency_signals
          IN /\ ~panicked'
             /\ DOMAIN old \subseteq DOMAIN new
             /\ Cardinality(DOMAIN new \ DOMAIN old) = 1
             /\ \A t \in DOMAIN new \ DOMAIN old :
                    /\ new[t] = <<>>
                    /\ ~is_dependency_signaled(watched_shaders', t)
             /\ \A s \in DOMAIN old : new[s] = old[s]
             /\ watched_shaders'.dirty_dependency_signals
                    = watched_shaders.dirty_dependency_signals
    ]_vars

\* A signal was created while another one, with a shader, was signalled.
C15_Witness ==
    /\ call.op = "create_dependency_signal"
    /\ \E s \in Signals, t \in Signals :
          /\ s \in Dirty
          /\ watched_shaders.dependency_signals[s] # <<>>
          /\ t \notin Dirty
          /\ watched_shaders.dependency_signals[t] = <<>>
          /\ \A u \in Signals : u <= t

\* C16: every step keeps every signal and every name on its list, and only
\* load_shader called with a signal changes that signal's list.
C16_DependencySetOnlyGrows ==
    [][\A s \in DOMAIN watched_shaders.dependency_signals :
          /\ s \in DOMAIN watched_shaders'.dependency_signals
          /\ Range(watched_shaders.dependency_signals[s])
                 \subseteq Range(watched_shaders'.dependency_signals[s])
          /\ watched_shaders'.dependency_signals[s]
                 # watched_shaders.dependency_signals[s]
                 => call'.op = "load_shader" /\ call'.sig = s
    ]_vars

\* A signal lists two shaders after an update_system and a later query.
C16_Witness ==
    /\ updates >= 1
    /\ call.op = "is_dependency_signaled"
    /\ \E s \in Signals : Deps(s) = RegistryNames

\* The post-processing signal is bound to the one asset post_comp.
PostReport == polled[POST_NAME]

\* C17: in a tick where post_comp loads for the first time or reloads without
\* error its signal is signalled and the pipeline is built once; in a tick
\* where post_comp does not change the signal is not signalled and the
\* pipeline is left alone.
C17_FirstLoadIsReload ==
    Ran("PostProcessing::update_system") =>
        /\ PostReport.event \in {"loaded", "reloaded"} =>
               /\ PostSig \in Dirty
               /\ refresh_calls.post = 1
               /\ PostProcessing_is_ready(post_processing)
        /\ PostReport.event = "unchanged" =>
               /\ PostSig \notin Dirty
               /\ refresh_calls.post = 0
               /\ post_processing.pipeline = tick_start.post

\* The tick, at or before the current one, in which slot j was last current.
LastUse(j) ==
    Tick - ((frame_index(render_manager) - j + FramesInFlight) % FramesInFlight)

\* C18: there are frames_in_flight frame slots, frame() selects slot
\* tick mod frames_in_flight, and a slot is only ever selected at such ticks.
C18_FrameSlotSelection ==
    LET i == RenderPipeline_frame(render_pipeline, frame_index(render_manager))
    IN /\ DOMAIN render_pipeline.frames = 0 .. FramesInFlight - 1
       /\ i \in DOMAIN render_pipeline.frames
       /\ i = Tick % FramesInFlight
       /\ \A j \in DOMAIN submitted :
              submitted[j].tick >= 0 =>
                  /\ submitted[j].tick % FramesInFlight = j
                  /\ submitted[j].tick <= LastUse(j)

\* Slot 0 is selected again frames_in_flight ticks after its first use, with
\* slot 1 used in between.
C18_Witness ==
    /\ Tick = FramesInFlight
    /\ submitted[0].tick = Tick
    /\ submitted[1].tick = Tick - 1
    /\ IsSome(render_pipeline.frames[0].descriptor_set)

\* What slot j was handed when it was last current.
Handed(j) ==
    IF submitted[j].tick >= 0 /\ submitted[j].tick = LastUse(j)
    THEN submitted[j].deps
    ELSE <<>>

\* C19: the current slot's retained list is empty until render_system hands
\* over this tick's used objects, and every slot holds exactly what it was
\* handed when it was last current.
C19_RetentionListTurnover ==
    /\ ~Ran("RenderPipeline::render_system") =>
           render_manager.used_objects[frame_index(render_manager)] = <<>>
    /\ \A j \in DOMAIN render_manager.used_objects :
           render_manager.used_objects[j] = Handed(j)

\* A tick reusing slot 0 begins: the list slot 0 was handed frames_in_flight
\* ticks ago is gone, the list of slot 1 is still retained.
C19_Witness ==
    /\ Tick = FramesInFlight
    /\ sys = 1
    /\ submitted[0].tick = 0
    /\ submitted[0].deps # <<>>
    /\ render_manager.used_objects[0] = <<>>
    /\ render_manager.used_objects[1] # <<>>

\* C20: a descriptor set written during a tick is the current slot's own, and
\* no slot's retained list holds a descriptor set at the time it is written.
C20_NoWriteWhileInFlight ==
    \A w \in descriptor_writes :
        /\ w.tick >= 0 => w.set = FrameDescriptorSet(w.slot)
        /\ w.retained_by = {}

\* Slot 0's descriptor set is rewritten at its second use while slot 1's list
\* still retains slot 1's descriptor set.
C20_Witness ==
    /\ \E w \in descriptor_writes : w.tick = 0 /\ w.set = FrameDescriptorSet(0)
    /\ \E w \in descriptor_writes :
          w.tick = FramesInFlight /\ w.set = FrameDescriptorSet(0)
    /\ FrameDescriptorSet(1) \in Range(render_manager.used_objects[1])
    /\ Tick = FramesInFlight

\* ============================================================== C21 .. C29
\* Every asset of the signal has content that get_shader can hand out.
AllReadable(s) ==
    \A a \in Deps(s) : IsSome(get_shader(watched_shaders, a))

\* C21: when a subsystem's refresh_pipeline runs in a tick, every asset of its
\* signal has loaded content, and the tick is not aborted by reading a shader.
C21_NoAbortOnPartialLoad ==
    /\ refresh_calls.shell > 0 => AllReadable(ShellSig)
    /\ refresh_calls.post > 0 => AllReadable(PostSig)
    /\ panicked => \E x \in Subsystems : build_result[x] = "panics"

\* The signal each subsystem rebuilds on.
SigOf == [shell |-> ShellSig, post |-> PostSig]

\* In an update_system step: the asset's handle was in the error state (a
\* failed reload or load not yet fixed) and this poll met a successful change;
\* then every signal listing the asset is signalled.
RecoveryDirties ==
    updates' = updates + 1 =>
        \A a \in DOMAIN watched_shaders.shaders :
            (watched_shaders.shaders[a].error /\ polled'[a].event = "reloaded")
                => \A s \in SignalsOf(watched_shaders', a) :
                       is_dependency_signaled(watched_shaders', s)

\* A subsystem whose asset changed successfully in this tick's poll calls
\* refresh_pipeline once in its update_system.
ChangeRebuilds ==
    \A x \in Subsystems :
        ( /\ decided_on[x] >= 0
          /\ \E a \in Deps(SigOf[x]) : polled[a].event = "reloaded" )
            => refresh_calls[x] = 1

ReadyFrameSubmitted == \E i \in DOMAIN submitted : submitted[i].tick >= 0

\* No load or reload of any asset has failed.
NoLoadFails == \A a \in AssetNames : ~watched_shaders.shaders[a].error

\* No pipeline construction has failed.
NoBuildFails == \A x \in Subsystems : build_result[x] \notin {"panics", "unusable"}

\* The asset's first load is seen to complete as long as the process polls it.
LoadsWhilePolled(a) == watched_shaders.shaders[a].loaded \/ panicked

\* C23: if no load and no pipeline construction ever fails and every asset's
\* load completes, then eventually render_system takes the ready branch.
C23_ReadinessEventuallyReached ==
    ( /\ []NoLoadFails
      /\ []NoBuildFails
      /\ \A a \in AssetNames : <>LoadsWhilePolled(a) )
        => <>ReadyFrameSubmitted

\* Both pipeline slots are filled.
BothReady == IsSome(shell_renderer.pipeline) /\ IsSome(post_processing.pipeline)

\* The descriptor set writes made in the current tick.
WritesThisTick == {w \in descriptor_writes : w.tick = Tick}

\* C24: after render_system, if either subsystem is not ready no command has
\* been recorded, no descriptor set has been written in this tick and the one
\* frame config names the backbuffer image, UNDEFINED, no access and no used
\* objects; if both are ready the one frame config names the post-processing
\* output image, GENERAL and a non-empty used-object list.
C24_BlankUnlessAllReady ==
    Ran("RenderPipeline::render_system") =>
        /\ Len(render_manager.frame_configs) = 1
        /\ LET config == render_manager.frame_configs[1]
           IN IF BothReady
              THEN /\ config.backbuffer = PostOutImage
                   /\ config.layout = "GENERAL"
                   /\ config.used_objects # <<>>
              ELSE /\ render_manager.command_buffer = <<>>
                   /\ WritesThisTick = {}
                   /\ config.backbuffer = BackbufferImage
                   /\ config.layout = "UNDEFINED"
                   /\ config.access = "empty"
                   /\ config.used_objects = <<>>

\* Exactly one subsystem is ready (post-processing) and the frame is blank.
C24_Witness ==
    /\ Ran("RenderPipeline::render_system")
    /\ PostProcessing_is_ready(post_processing)
    /\ ~ShellRenderer_is_ready(shell_renderer)
    /\ render_manager.frame_configs = <<BlankFrameConfig>>
    /\ render_manager.command_buffer = <<>>

\* In an update_system step, the events the poll met, read back from polled'.
EventsMet == [n \in DOMAIN watched_shaders.shaders |-> polled'[n].event]

\* An update_system step prints a diagnostic for every asset whose change
\* failed to load and none for an asset that did not change, and returns.
DiagnosticPerFailure ==
    updates' = updates + 1 =>
        LET printed == update_system_diagnostics(watched_shaders, EventsMet)
        IN /\ \A a \in DOMAIN watched_shaders.shaders :
                 /\ EventsMet[a] = "reload_failed" => a \in printed
                 /\ EventsMet[a] = "unchanged" => a \notin printed
           /\ ~panicked'

NoSecondSignal ==
    updates' = updates + 1 =>
        /\ \A a \in DOMAIN watched_shaders.shaders :
               ( /\ watched_shaders.shaders[a].loaded
                 /\ ~watched_shaders.shaders[a].error
                 /\ polled'[a].event = "unchanged" )
                   => ~Inserts(polled'[a])
        /\ watched_shaders.shaders_loaded \subseteq watched_shaders'.shaders_loaded

\* C26: an asset that has loaded successfully once and does not change
\* afterwards signals its dependents in the one tick that reported the load
\* and in no later tick.
C26_SingleFirstLoadSignal == [][NoSecondSignal]_vars

\* C27: the dirty set holds only signals create_dependency_signal returned, a
\* signal with an empty dependency list is not dirty, is_dependency_signaled
\* answers false for a token the registry did not create, and load_shader
\* with such a token panics and leaves the token out of the registry.
C27_OnlyRegisteredNonEmptyDirty ==
    /\ Dirty \subseteq Signals
    /\ \A s \in Signals : Deps(s) = {} => s \notin Dirty
    /\ (call.op = "is_dependency_signaled" /\ call.sig = ForeignToken)
            => ~call.answer
    /\ (call.op = "load_shader" /\ call.sig = ForeignToken)
            => panicked /\ ForeignToken \notin Signals

\* One signal is dirty, another has an empty list, and load_shader has just
\* been called with the foreign token.
C27_Witness ==
    /\ call.op = "load_shader"
    /\ call.sig = ForeignToken
    /\ panicked
    /\ Dirty # {}
    /\ \E s \in Signals : Deps(s) = {}

\* The u32 one below and one above, as numbers in halves (no wrapping: one
\* above 2^32 - 1 is not a u32).
OneBelow(x) == IF x.lo = 0 THEN U32(x.hi - 1, Half - 1) ELSE U32(x.hi, x.lo - 1)
OneAbove(x) == IF x.lo = Half - 1 THEN U32(x.hi + 1, 0) ELSE U32(x.hi, x.lo + 1)
One == U32(0, 1)

Resolution == shell_renderer.resolution

\* C28: the resolution is at least 1 and no key tick panics; from every
\* resolution reached, H lowers a resolution above 1 by exactly 1 and leaves 1
\* at 1, and L raises it by exactly 1.
C28_ResolutionAtLeastOne ==
    /\ Resolution # U32(0, 0)
    /\ ~panicked
    /\ \A build \in Builds :
          /\ KeyH(Resolution, build) =
                 Edited(IF Resolution = One THEN One ELSE OneBelow(Resolution), FALSE)
          /\ KeyL(Resolution, build) = Edited(OneAbove(Resolution), FALSE)

\* The cursor is shown exactly when it is not locked and confined exactly when
\* it is.
CursorFollowsLock ==
    /\ window.cursor_visible <=> ~camera.cursor_locked
    /\ window.cursor_grab_mode = "Confined" <=> camera.cursor_locked

\* In a tick the flag flips exactly if E went down in it, and an angle changes
\* only if the flag was set when the tick began.
LockAndAnglesStep ==
    input'.frame # input.frame =>
        /\ camera'.cursor_locked # camera.cursor_locked
               <=> is_key_pressed(input', "E")
        /\ (camera'.rx # camera.rx \/ camera'.ry # camera.ry)
               => camera.cursor_locked

\* C29: the cursor is visible iff cursor_locked is false and confined iff it
\* is true; cursor_locked flips exactly in the ticks where E is pressed; rx and
\* ry change only in ticks that begin with cursor_locked true.
C29_CursorFollowsLock == []CursorFollowsLock /\ [][LockAndAnglesStep]_vars

\* The cursor was locked in an earlier tick, the mouse has turned the camera,
\* and E in this tick has released the cursor again.
C29_Witness ==
    /\ is_key_pressed(input, "E")
    /\ ~camera.cursor_locked
    /\ window = Window("None", TRUE)
    /\ camera.rx # 0
    /\ camera.ry # 0

====
